---- MODULE Spec2Model ----
(***************************************************************************)
(* The Fitch-Cheney five-card trick of HaveFunWithMaths/CardTrick.         *)
(*                                                                         *)
(* The encoder getFitchCheneyArrangement (src/src/App.tsx, with a copy in  *)
(* src/verify_logic.ts) and the decoder decode (src/verify_logic.ts) are   *)
(* pure functions; they are operators here, computed step by step as the   *)
(* TypeScript computes them.  The specifications draw their inputs from    *)
(* bounded sets and apply them:                                            *)
(*   Spec         well-formed 5-card hands: encode, then decode            *)
(*   SpecTable    the offset <-> permutation table on three cards          *)
(*   SpecRank     getCardRank and the sort over the whole 52-card deck     *)
(*   SpecInvalid  hands and code-card sequences that break the contract    *)
(*   SpecApp      the state of the App component under its event handlers  *)
(***************************************************************************)
EXTENDS Integers, Sequences, FiniteSets, TLC

VARIABLES
    pc,         \* position of the harness: which call comes next
    hand,       \* Card[] handed to the encoder (or the cards under test)
    offset,     \* SpecTable: the offset given to the encoder's switch
    solution,   \* outcome of getFitchCheneyArrangement(hand)
    indicator,  \* first argument of decode
    codeCards,  \* second argument of decode
    predicted,  \* outcome of decode(indicator, codeCards)
    matched,    \* SpecTable: the offset the decoder's if-chain finds
    ranks,      \* SpecRank: getCardRank of each card of hand
    sorted,     \* SpecRank: hand sorted by the comparator
    deck,             \* App: useState deck
    phase,            \* App: useState phase
    activeSuit,       \* App: useState activeSuit
    isHiddenRevealed, \* App: useState isHiddenRevealed
    badCall           \* App: performMagic has passed the encoder a hand that
                      \* is not 5 pairwise different cards

\* In SpecApp hand and solution are the App's useState hand and solution.
appVars == <<deck, phase, activeSuit, isHiddenRevealed, badCall>>

vars == <<pc, hand, offset, solution, indicator, codeCards, predicted, matched,
          ranks, sorted, appVars>>

(***************************************************************************)
(* Types and constants                                                     *)
(***************************************************************************)

\* type Suit
Suit == {"clubs", "diamonds", "hearts", "spades"}

\* type CardValue
CardValue == 1..13

SUITS_TieBreakOrder == <<"clubs", "diamonds", "hearts", "spades">>

\* const SUITS: the order in which the suits are scanned
SUITS == <<"spades", "hearts", "clubs", "diamonds">>

\* const SUIT_ORDER: the tie-break priority of a suit
SUIT_ORDER == [clubs |-> 0, diamonds |-> 1, hearts |-> 2, spades |-> 3]

\* id: `${suit}-${v}`
CardId(suit, v) == suit \o "-" \o ToString(v)

\* A card of the deck the App builds.  displayValue is a label computed from
\* value and read by the rendering only; it is left out.
Card(suit, v) == [id |-> CardId(suit, v), suit |-> suit, value |-> v]

\* A card object as randomCard of verify_logic.ts makes it:
\* id: `${suit}-${value}-${idCounter++}`
CardCopy(suit, v, n) ==
    [id |-> CardId(suit, v) \o "-" \o ToString(n), suit |-> suit, value |-> v]

\* The deck the App builds: every suit of SUITS, v = 1..13.
FullDeck == {Card(SUITS[i], v) : i \in 1..Len(SUITS), v \in CardValue}

\* JavaScript's undefined, as a value that is no card.  Reading a property
\* of it throws a TypeError; the operators below test for it before every
\* property read the code makes.
Undefined == [id |-> "undefined", suit |-> "undefined", value |-> 0]

\* arr[i - 1] of a destructuring [a, b, c] = arr: undefined past the end
At(arr, i) == IF i <= Len(arr) THEN arr[i] ELSE Undefined

(***************************************************************************)
(* Card ordering                                                           *)
(***************************************************************************)

getCardRank_WrongStride(c) == (c.value - 1) * 3 + SUIT_ORDER[c.suit]

\* const getCardRank = (c) => (c.value - 1) * 4 + SUIT_ORDER[c.suit]
getCardRank(c) == (c.value - 1) * 4 + SUIT_ORDER[c.suit]

\* One step of a stable insertion: x goes after every element that does not
\* compare greater than it.
RECURSIVE InsertByRank(_, _)
InsertByRank(x, arr) ==
    IF arr = <<>> THEN <<x>>
    ELSE IF getCardRank(Head(arr)) - getCardRank(x) > 0
         THEN <<x>> \o arr
         ELSE <<Head(arr)>> \o InsertByRank(x, Tail(arr))

RECURSIVE SortDefined(_)
SortDefined(arr) ==
    IF arr = <<>> THEN <<>>
    ELSE InsertByRank(arr[Len(arr)], SortDefined(SubSeq(arr, 1, Len(arr) - 1)))

SortByRank_KeepsOrder(arr) == arr

\* [...arr].sort((a, b) => getCardRank(a) - getCardRank(b)): Array.prototype.sort
\* is stable and moves undefined elements to the end without comparing them.
SortByRank(arr) ==
    SortDefined(SelectSeq(arr, LAMBDA c : c # Undefined))
        \o SelectSeq(arr, LAMBDA c : c = Undefined)

(***************************************************************************)
(* Encoder: getFitchCheneyArrangement                                      *)
(***************************************************************************)

\* What a call of the encoder comes to: the object it returns, or the error
\* it throws.  offset is the function's local variable of that name, kept
\* beside the returned fields so that it can be stated.
Arrangement(ind, hid, cc, off) ==
    [status |-> "ok", error |-> "", indicator |-> ind, hidden |-> hid,
     codeCards |-> cc, offset |-> off]

Thrown(msg) ==
    [status |-> "throw", error |-> msg, indicator |-> Undefined,
     hidden |-> Undefined, codeCards |-> <<>>, offset |-> 0]

\* Before any call.
NoSolution ==
    [status |-> "none", error |-> "", indicator |-> Undefined,
     hidden |-> Undefined, codeCards |-> <<>>, offset |-> 0]

\* suitCounts: hand.forEach(c => suitCounts[c.suit].push(c))
suitCounts(h) == [s \in Suit |-> SelectSeq(h, LAMBDA c : c.suit = s)]

sameSuitPair_OneIsEnough(h) ==
    LET counts == suitCounts(h)
        hits   == {i \in 1..Len(SUITS) : Len(counts[SUITS[i]]) >= 1}
    IN  IF hits = {} THEN <<>>
        ELSE LET first == CHOOSE i \in hits : \A j \in hits : i <= j
                 cards == counts[SUITS[first]]
             IN  SubSeq(cards, 1, IF Len(cards) < 2 THEN Len(cards) ELSE 2)

\* for (const suit of SUITS) if (suitCounts[suit].length >= 2)
\*   { sameSuitPair = suitCounts[suit].slice(0, 2); break; }
sameSuitPair(h) ==
    LET counts == suitCounts(h)
        hits   == {i \in 1..Len(SUITS) : Len(counts[SUITS[i]]) >= 2}
    IN  IF hits = {} THEN <<>>
        ELSE LET first == CHOOSE i \in hits : \A j \in hits : i <= j
             IN  SubSeq(counts[SUITS[first]], 1, 2)

\* dist(a, b) = (b - a + 13) % 13, on card values
dist(a, b) == (b - a + 13) % 13

direction_AlwaysFirst(c1, c2) ==
    [indicator |-> c1, hidden |-> c2, offset |-> dist(c1.value, c2.value)]

\* 2. Determine Hidden vs Indicator
direction(c1, c2) ==
    LET dist1to2 == dist(c1.value, c2.value)
        dist2to1 == dist(c2.value, c1.value)
    IN  IF dist1to2 > 0 /\ dist1to2 <= 6
        THEN [indicator |-> c1, hidden |-> c2, offset |-> dist1to2]
        ELSE [indicator |-> c2, hidden |-> c1, offset |-> dist2to1]

remaining_KeepsHidden(h, ind, hid) == SelectSeq(h, LAMBDA c : c.id # ind.id)

\* hand.filter(c => c.id !== indicator.id && c.id !== hidden.id)
remaining(h, ind, hid) ==
    SelectSeq(h, LAMBDA c : c.id # ind.id /\ c.id # hid.id)

permute_SwappedRows(off, low, mid, high) ==
    CASE off = 1 -> <<low, mid, high>>
      [] off = 2 -> <<low, high, mid>>
      [] off = 3 -> <<mid, high, low>>
      [] off = 4 -> <<mid, low, high>>
      [] off = 5 -> <<high, low, mid>>
      [] off = 6 -> <<high, mid, low>>
      [] OTHER   -> <<low, mid, high>>

\* 4. Permute based on offset (1-6): the switch, with its default
permute(off, low, mid, high) ==
    CASE off = 1 -> <<low, mid, high>>
      [] off = 2 -> <<low, high, mid>>
      [] off = 3 -> <<mid, low, high>>
      [] off = 4 -> <<mid, high, low>>
      [] off = 5 -> <<high, low, mid>>
      [] off = 6 -> <<high, mid, low>>
      [] OTHER   -> <<low, mid, high>>

\* The body both copies of the encoder share, from "1. Find the suit" to the
\* return.  const [c1, c2] = sameSuitPair leaves c1 undefined when no suit
\* holds two cards, and c1.value then throws a TypeError.
arrange(h) ==
    LET pair == sameSuitPair(h)
        c1   == At(pair, 1)
        c2   == At(pair, 2)
    IN  IF c1 = Undefined \/ c2 = Undefined THEN Thrown("TypeError")
        ELSE LET d      == direction(c1, c2)
                 rest   == remaining(h, d.indicator, d.hidden)
                 srt    == SortByRank(rest)
                 low    == At(srt, 1)
                 mid    == At(srt, 2)
                 high   == At(srt, 3)
             IN  Arrangement(d.indicator, d.hidden,
                             permute(d.offset, low, mid, high), d.offset)

\* function getFitchCheneyArrangement(hand) of App.tsx
getFitchCheneyArrangement(h) ==
    IF Len(h) # 5 THEN Thrown("Need exactly 5 cards") ELSE arrange(h)

\* function getFitchCheneyArrangement(hand) of verify_logic.ts: the copy
\* has no length check
verify_getFitchCheneyArrangement(h) == arrange(h)

(***************************************************************************)
(* Decoder: decode                                                         *)
(***************************************************************************)

Predicted(card, off) == [status |-> "ok", error |-> "", card |-> card, offset |-> off]

ThrownDecode(msg) == [status |-> "throw", error |-> msg, card |-> Undefined, offset |-> 0]

NoPrediction == [status |-> "none", error |-> "", card |-> Undefined, offset |-> 0]

\* a.id === b.id: "throw" when either side is undefined
IdEq(a, b) ==
    IF a = Undefined \/ b = Undefined THEN "throw"
    ELSE IF a.id = b.id THEN "true" ELSE "false"

\* x && y && z, left to right, stopping at the first that is not true
And3(x, y, z) == IF x # "true" THEN x ELSE IF y # "true" THEN y ELSE z

\* The if-chain's rows: row k compares c1, c2, c3 with these places of [L, M, H]
\* (LMH, LHM, MLH, MHL, HLM, HML).
decodeRows ==
    << <<1, 2, 3>>, <<1, 3, 2>>, <<2, 1, 3>>, <<2, 3, 1>>, <<3, 1, 2>>, <<3, 2, 1>> >>

\* The condition of the k-th branch of the if-chain
branch(k, cc, srt) ==
    And3(IdEq(At(cc, 1), At(srt, decodeRows[k][1])),
         IdEq(At(cc, 2), At(srt, decodeRows[k][2])),
         IdEq(At(cc, 3), At(srt, decodeRows[k][3])))

\* let offset = 0; if (...) offset = 1; else if (...) offset = 2; ...
\* -1 stands for the TypeError of a property read of undefined.
RECURSIVE matchFrom(_, _, _)
matchFrom(k, cc, srt) ==
    IF k > Len(decodeRows) THEN 0
    ELSE LET b == branch(k, cc, srt)
         IN  IF b = "throw" THEN -1
             ELSE IF b = "true" THEN k
             ELSE matchFrom(k + 1, cc, srt)

matchOffset(cc) == matchFrom(1, cc, SortByRank(cc))

hiddenValue_NoWrap(v, off) == v + off

\* (indicator.value + offset - 1) % 13 + 1
hiddenValue(v, off) == ((v + off - 1) % 13) + 1

\* function decode(indicator, codeCards)
decode(ind, cc) ==
    LET off == matchOffset(cc)
    IN  IF off = -1 \/ ind = Undefined THEN ThrownDecode("TypeError")
        ELSE Predicted([id |-> "predicted", suit |-> ind.suit,
                        value |-> hiddenValue(ind.value, off)], off)

(***************************************************************************)
(* Spec: well-formed hands, encoded and then decoded                       *)
(***************************************************************************)

\* The App's own state at its useState initial values, where it stays in the
\* specifications that call the encoder and decoder directly.
AppIdle ==
    /\ deck = <<>>
    /\ phase = "selection"
    /\ activeSuit = "spades"
    /\ isHiddenRevealed = FALSE
    /\ badCall = FALSE

\* The cards hands are dealt from, in the order they come into play as
\* DeckSize grows.  The spades hold every clockwise distance 1..6 between
\* two of them (one pair across the King-Ace wrap); values repeat across
\* suits so that the sort has to break ties by suit.
DeckOrder ==
    << Card("spades", 8),   Card("spades", 9),   Card("spades", 12),
       Card("spades", 1),   Card("hearts", 13),  Card("hearts", 3),
       Card("hearts", 6),   Card("clubs", 1),    Card("clubs", 7),
       Card("diamonds", 1), Card("diamonds", 2), Card("diamonds", 8),
       Card("clubs", 12),   Card("hearts", 9),   Card("spades", 5),
       Card("diamonds", 13) >>

DeckSize == 12

Deck == {DeckOrder[i] : i \in 1..DeckSize}

\* Card[] values of n pairwise different cards of D, in every order
Hands(D, n) == {h \in [1..n -> D] : \A i, j \in 1..n : i < j => h[i] # h[j]}

Init ==
    /\ pc = "dealt"
    /\ hand \in Hands(Deck, 5)
    /\ offset = 0
    /\ solution = NoSolution
    /\ indicator = Undefined
    /\ codeCards = <<>>
    /\ predicted = NoPrediction
    /\ matched = 0
    /\ ranks = <<>>
    /\ sorted = <<>>
    /\ AppIdle

\* const { indicator, hidden, codeCards } = getFitchCheneyArrangement(hand),
\* with the encoder of App.tsx
Encode ==
    /\ pc = "dealt"
    /\ solution' = getFitchCheneyArrangement(hand)
    /\ indicator' = solution'.indicator
    /\ codeCards' = solution'.codeCards
    /\ pc' = "encoded"
    /\ UNCHANGED appVars
    /\ UNCHANGED <<hand, offset, predicted, matched, ranks, sorted>>

\* the same call with the copy of verify_logic.ts, as its test loop makes it
EncodeVerify ==
    /\ pc = "dealt"
    /\ solution' = verify_getFitchCheneyArrangement(hand)
    /\ indicator' = solution'.indicator
    /\ codeCards' = solution'.codeCards
    /\ pc' = "encoded"
    /\ UNCHANGED appVars
    /\ UNCHANGED <<hand, offset, predicted, matched, ranks, sorted>>

\* const predicted = decode(indicator, codeCards); a throwing encoder leaves
\* the try block before this line
Decode ==
    /\ pc = "encoded"
    /\ solution.status # "throw"
    /\ predicted' = decode(indicator, codeCards)
    /\ pc' = "decoded"
    /\ UNCHANGED appVars
    /\ UNCHANGED <<hand, offset, solution, indicator, codeCards, matched, ranks, sorted>>

Next == Encode \/ EncodeVerify \/ Decode

Spec == Init /\ [][Next]_vars

(***************************************************************************)
(* Claims on well-formed hands (Spec)                                      *)
(***************************************************************************)

\* how many entries of arr are x
Count(arr, x) == Cardinality({i \in DOMAIN arr : arr[i] = x})

Encoded == pc \in {"encoded", "decoded"}

\* C1 (round trip): for every hand of 5 pairwise distinct cards, in every
\* input order, the encoder returns an arrangement, and decode applied to its
\* indicator and codeCards returns a card with the suit and the value of its
\* hidden card.
C1_RoundTrip ==
    /\ Encoded => solution.status = "ok"
    /\ pc = "decoded" =>
          /\ predicted.status = "ok"
          /\ predicted.card.suit = solution.hidden.suit
          /\ predicted.card.value = solution.hidden.value

\* A decoded hand whose hidden card lies across the King-Ace wrap from the
\* indicator, the indicator being the later of the two cards in the hand.
C1_Witness ==
    /\ pc = "decoded"
    /\ predicted.status = "ok"
    /\ solution.indicator.value + solution.offset > 13
    /\ predicted.card.value = solution.hidden.value
    /\ \E i, j \in 1..5 : i < j /\ hand[j] = solution.indicator /\ hand[i] = solution.hidden

\* C2 (partition): the indicator, the three codeCards and the hidden card are
\* the five cards of the hand, each exactly once, and codeCards has exactly 3
\* entries.
C2_Partition ==
    Encoded =>
        LET out == <<solution.indicator>> \o solution.codeCards \o <<solution.hidden>>
        IN  /\ Len(solution.codeCards) = 3
            /\ \A i \in 1..Len(out) : Count(out, out[i]) = Count(hand, out[i])
            /\ \A i \in 1..Len(hand) : Count(out, hand[i]) = Count(hand, hand[i])

\* An arrangement whose pair is the last two cards of the hand and whose
\* code cards are not in the order the hand had them.
C2_Witness ==
    /\ pc = "encoded"
    /\ solution.status = "ok"
    /\ {solution.indicator, solution.hidden} = {hand[4], hand[5]}
    /\ solution.codeCards # SubSeq(hand, 1, 3)

\* C3 (suit sharing): the encoder always finds a pair, and the indicator and
\* the hidden card have the same suit.
C3_SuitSharing ==
    Encoded =>
        /\ solution.status = "ok"
        /\ solution.indicator # Undefined
        /\ solution.hidden # Undefined
        /\ solution.indicator.suit = solution.hidden.suit

\* An arrangement of a hand whose first two cards differ in suit.
C3_Witness ==
    /\ pc = "encoded"
    /\ solution.status = "ok"
    /\ hand[1].suit # hand[2].suit
    /\ solution.indicator.suit = solution.hidden.suit
    /\ solution.indicator # solution.hidden

\* C4 (offset range): the offset is in 1..6 and is the clockwise distance
\* from the indicator's value to the hidden card's; the decoder's if-chain
\* then matches one of its six branches, never leaving offset at 0.
C4_OffsetRange ==
    /\ Encoded =>
          /\ solution.offset \in 1..6
          /\ solution.offset
                = (solution.hidden.value - solution.indicator.value + 13) % 13
    /\ pc = "decoded" => predicted.offset \in 1..6

\* An arrangement with offset 6 measured across the wrap (indicator above
\* the hidden card), reached by the else branch.
C4_Witness ==
    /\ pc = "encoded"
    /\ solution.offset = 6
    /\ solution.indicator.value > solution.hidden.value
    /\ \E i, j \in 1..5 : i < j /\ hand[i] = solution.hidden /\ hand[j] = solution.indicator

\* C9 (pair selection): {indicator, hidden} is the first two cards, in the
\* hand's order, of the first suit in the order spades, hearts, clubs,
\* diamonds that holds at least two cards of the hand.
C9_PairSelection ==
    Encoded =>
        LET scan     == <<"spades", "hearts", "clubs", "diamonds">>
            at(s)    == {i \in 1..Len(hand) : hand[i].suit = s}
            hits     == {k \in 1..4 : Cardinality(at(scan[k])) >= 2}
            k1       == CHOOSE k \in hits : \A m \in hits : k <= m
            i1       == CHOOSE i \in at(scan[k1]) : \A m \in at(scan[k1]) : i <= m
            i2       == CHOOSE i \in at(scan[k1]) \ {i1} :
                            \A m \in at(scan[k1]) \ {i1} : i <= m
        IN  /\ hits # {}
            /\ {solution.indicator, solution.hidden} = {hand[i1], hand[i2]}

\* A hand that opens with two diamonds and also holds three hearts, of which
\* the first two are taken and the third is left among the code cards.
C9_Witness ==
    /\ pc = "encoded"
    /\ hand[1].suit = "diamonds"
    /\ hand[2].suit = "diamonds"
    /\ hand[3].suit = "hearts"
    /\ hand[4].suit = "hearts"
    /\ hand[5].suit = "hearts"
    /\ {solution.indicator, solution.hidden} = {hand[3], hand[4]}

(***************************************************************************)
(* SpecTable: the encoder's switch against the decoder's if-chain          *)
(***************************************************************************)

InitTable ==
    /\ pc = "table"
    /\ hand \in Hands(Deck, 3)
    /\ offset \in 1..6
    /\ solution = NoSolution
    /\ indicator = Undefined
    /\ codeCards = <<>>
    /\ predicted = NoPrediction
    /\ matched = 0
    /\ ranks = <<>>
    /\ sorted = <<>>
    /\ AppIdle

\* sortedRemaining, [low, mid, high] and the switch on offset (encoder, 3.-4.)
Permute ==
    /\ pc = "table"
    /\ sorted' = SortByRank(hand)
    /\ codeCards' = permute(offset, At(sorted', 1), At(sorted', 2), At(sorted', 3))
    /\ pc' = "permuted"
    /\ UNCHANGED appVars
    /\ UNCHANGED <<hand, offset, solution, indicator, predicted, matched, ranks>>

\* the decoder's sort and if-chain on those code cards
Match ==
    /\ pc = "permuted"
    /\ matched' = matchOffset(codeCards)
    /\ pc' = "matched"
    /\ UNCHANGED appVars
    /\ UNCHANGED <<hand, offset, solution, indicator, codeCards, predicted, ranks, sorted>>

NextTable == Permute \/ Match

SpecTable == InitTable /\ [][NextTable]_vars

\* the orderings of a Card[] of three cards
Orderings(arr) ==
    {<<arr[p[1]], arr[p[2]], arr[p[3]]>> :
        p \in {q \in [1..3 -> 1..3] : \A i, j \in 1..3 : i # j => q[i] # q[j]}}

\* C5 (permutation table): on three cards sorted low < mid < high, the six
\* orderings of the switch for offsets 1..6 are pairwise distinct, the
\* decoder's if-chain finds offset k on the encoder's ordering for k, and
\* every ordering of the three cards satisfies exactly one branch.
C5_TableBijective ==
    LET srt == SortByRank(hand)
    IN  /\ \A k1, k2 \in 1..6 :
              k1 # k2 => permute(k1, srt[1], srt[2], srt[3])
                            # permute(k2, srt[1], srt[2], srt[3])
        /\ pc = "matched" => matched = offset
        /\ \A o \in Orderings(hand) :
              Cardinality({k \in 1..6 : branch(k, o, SortByRank(o)) = "true"}) = 1

\* Offset 4 recovered from three cards given out of order, two of them of
\* equal value.
C5_Witness ==
    /\ pc = "matched"
    /\ offset = 4
    /\ matched = 4
    /\ hand # sorted
    /\ hand[1].value = hand[2].value
    /\ codeCards = <<sorted[2], sorted[3], sorted[1]>>

(***************************************************************************)
(* SpecRank: getCardRank and the sort, over the whole deck                 *)
(***************************************************************************)

InitRank ==
    /\ pc = "cards"
    /\ hand \in Hands(FullDeck, 3)
    /\ offset = 0
    /\ solution = NoSolution
    /\ indicator = Undefined
    /\ codeCards = <<>>
    /\ predicted = NoPrediction
    /\ matched = 0
    /\ ranks = <<>>
    /\ sorted = <<>>
    /\ AppIdle

\* getCardRank of each card
Rank ==
    /\ pc = "cards"
    /\ ranks' = [i \in 1..Len(hand) |-> getCardRank(hand[i])]
    /\ pc' = "ranked"
    /\ UNCHANGED appVars
    /\ UNCHANGED <<hand, offset, solution, indicator, codeCards, predicted, matched, sorted>>

\* [...cards].sort((a, b) => getCardRank(a) - getCardRank(b))
Sort ==
    /\ pc = "ranked"
    /\ sorted' = SortByRank(hand)
    /\ pc' = "sorted"
    /\ UNCHANGED appVars
    /\ UNCHANGED <<hand, offset, solution, indicator, codeCards, predicted, matched, ranks>>

NextRank == Rank \/ Sort

SpecRank == InitRank /\ [][NextRank]_vars

\* Suit priority as the documentation states it: clubs < diamonds < hearts < spades
Priority(suit) ==
    CASE suit = "clubs" -> 0 [] suit = "diamonds" -> 1
      [] suit = "hearts" -> 2 [] suit = "spades" -> 3

\* C10 (card ordering): getCardRank(c) = (value - 1) * 4 + suit priority is
\* injective over the 52 cards; getCardRank(a) < getCardRank(b) exactly when
\* a.value < b.value, or the values are equal and a's suit priority is lower;
\* and the ascending sort of three distinct cards is the same strictly
\* ascending sequence whatever order they are given in.
C10_CardOrdering ==
    /\ pc \in {"ranked", "sorted"} =>
          \A i, j \in 1..3 :
              /\ ranks[i] = (hand[i].value - 1) * 4 + Priority(hand[i].suit)
              /\ hand[i] # hand[j] => ranks[i] # ranks[j]
              /\ ranks[i] < ranks[j]
                    <=> \/ hand[i].value < hand[j].value
                        \/ /\ hand[i].value = hand[j].value
                           /\ Priority(hand[i].suit) < Priority(hand[j].suit)
    /\ pc = "sorted" =>
          /\ sorted \in Orderings(hand)
          /\ getCardRank(sorted[1]) < getCardRank(sorted[2])
          /\ getCardRank(sorted[2]) < getCardRank(sorted[3])
          /\ \A o \in Orderings(hand) : SortByRank(o) = sorted

\* Three cards of one value given in descending suit priority: the sort
\* reverses them.
C10_Witness ==
    /\ pc = "sorted"
    /\ hand[1].value = hand[2].value
    /\ hand[2].value = hand[3].value
    /\ ranks[1] > ranks[2]
    /\ ranks[2] > ranks[3]
    /\ sorted = <<hand[3], hand[2], hand[1]>>

(***************************************************************************)
(* SpecInvalid: calls that break the contract of the encoder or decoder    *)
(***************************************************************************)

\* The card objects the ill-formed inputs are built from: a pair of spades,
\* cards of every other suit, and a second object for the 8 of spades with
\* an id of its own.
ProbeDeck ==
    { Card("spades", 8), Card("spades", 9), Card("hearts", 13),
      Card("hearts", 3), Card("clubs", 1), Card("diamonds", 1),
      CardCopy("spades", 8, 1) }

\* hands of 5 - LenSlack .. 5 + LenSlack cards, code-card sequences of
\* 3 - LenSlack .. 3 + LenSlack
LenSlack == 1

\* Card[] values of n cards of D, repeats allowed
Arrays(D, n) == [1..n -> D]

\* the different (suit, value) pairs among the entries
Faces(arr) == {<<arr[i].suit, arr[i].value>> : i \in 1..Len(arr)}

\* two entries share suit and value
HasDuplicate(arr) == Cardinality(Faces(arr)) < Len(arr)

WellFormedHand(h) == Len(h) = 5 /\ ~HasDuplicate(h)

\* the decoder's input contract: 3 distinct cards, none the indicator's
WellFormedCode(ind, cc) ==
    /\ Len(cc) = 3
    /\ ~HasDuplicate(cc)
    /\ <<ind.suit, ind.value>> \notin Faces(cc)

\* A hand that breaks one clause of the encoder's contract: the wrong number
\* of distinct cards, or 5 cards one of which is there twice.
InitInvalidHand ==
    /\ pc = "dealt"
    /\ \E n \in (5 - LenSlack)..(5 + LenSlack) : hand \in Arrays(ProbeDeck, n)
    /\ \/ Len(hand) # 5 /\ ~HasDuplicate(hand)
       \/ Len(hand) = 5 /\ Cardinality(Faces(hand)) = 4
    /\ indicator = Undefined
    /\ codeCards = <<>>

\* Decoder arguments that break one clause of its contract: the wrong number
\* of code cards, one code card twice, or the indicator among them.
InitInvalidCode ==
    /\ pc = "encoded"
    /\ hand = <<>>
    /\ indicator \in ProbeDeck
    /\ \E n \in (3 - LenSlack)..(3 + LenSlack) : codeCards \in Arrays(ProbeDeck, n)
    /\ \/ /\ Len(codeCards) # 3
          /\ ~HasDuplicate(codeCards)
          /\ <<indicator.suit, indicator.value>> \notin Faces(codeCards)
       \/ /\ Len(codeCards) = 3
          /\ Cardinality(Faces(codeCards)) = 2
          /\ <<indicator.suit, indicator.value>> \notin Faces(codeCards)
       \/ /\ Len(codeCards) = 3
          /\ ~HasDuplicate(codeCards)
          /\ <<indicator.suit, indicator.value>> \in Faces(codeCards)

InitInvalid ==
    /\ InitInvalidHand \/ InitInvalidCode
    /\ offset = 0
    /\ solution = NoSolution
    /\ predicted = NoPrediction
    /\ matched = 0
    /\ ranks = <<>>
    /\ sorted = <<>>
    /\ AppIdle

SpecInvalid == InitInvalid /\ [][Next]_vars

\* the encoder has been called on hand
Called == solution.status # "none"

\* C6 (hand-size error): an encoder called with a hand of other than 5
\* cards fails with an error and returns no arrangement.  (Any thrown error
\* is accepted here as the failure.)
C6_HandSizeError ==
    (Called /\ Len(hand) # 5) => solution.status = "throw"

\* C7 (duplicate-card error): an encoder called with 5 cards of which two
\* share suit and value fails with an error and returns no arrangement.
C7_DuplicateError ==
    (Called /\ Len(hand) = 5 /\ HasDuplicate(hand)) => solution.status = "throw"

\* C8 (invalid-permutation error): decode called with code cards that are
\* not 3 in number, or hold a card twice, or hold the indicator's suit and
\* value, fails with an error instead of returning a card.
C8_InvalidPermutationError ==
    (pc = "decoded" /\ ~WellFormedCode(indicator, codeCards))
        => predicted.status = "throw"

(***************************************************************************)
(* SpecApp: the App component's state under its event handlers             *)
(*                                                                         *)
(* Each action is one event handler run to completion on the state of the  *)
(* current render.  Reveal, reset, the suit tabs and PERFORM MAGIC are     *)
(* reachable only while the JSX renders their element; handleCardClick     *)
(* and performMagic carry guards of their own, and are called here in      *)
(* every state their guard has to decide.  A view that the animation       *)
(* library keeps on screen while it fades out is not part of the model.    *)
(***************************************************************************)

\* The deck is cut down to its AppCards lowest cards in getCardRank order:
\* every suit's values 1 and 2 at AppCards = 8.
AppCards == 8

\* Initialize Deck: SUITS.forEach(suit => { for (let v = 1; v <= 13; v++)
\* newDeck.push({ id: `${suit}-${v}`, suit, value: v, ... }) })
newDeck ==
    LET n == Cardinality(CardValue)
        all == [k \in 1..(Len(SUITS) * n) |->
                   Card(SUITS[((k - 1) \div n) + 1], ((k - 1) % n) + 1)]
    IN  SelectSeq(all, LAMBDA c : getCardRank(c) < AppCards)

\* visibleDeck: deck.filter(c => c.suit === activeSuit)
visibleDeck(d, suit) == SelectSeq(d, LAMBDA c : c.suit = suit)

\* hand.find(h => h.id === card.id)
inHand(h, card) == \E i \in 1..Len(h) : h[i].id = card.id

handleCardClick_NoLimit(ph, h, card) ==
    IF ph # "selection" THEN h
    ELSE IF inHand(h, card) THEN SelectSeq(h, LAMBDA c : c.id # card.id)
    ELSE Append(h, card)

handleCardClick_NoPhaseGuard(ph, h, card) ==
    IF inHand(h, card) THEN SelectSeq(h, LAMBDA c : c.id # card.id)
    ELSE IF Len(h) < 5 THEN Append(h, card)
    ELSE h

\* handleCardClick: the hand after a click on card
handleCardClick(ph, h, card) ==
    IF ph # "selection" THEN h
    ELSE IF inHand(h, card) THEN SelectSeq(h, LAMBDA c : c.id # card.id)
    ELSE IF Len(h) < 5 THEN Append(h, card)
    ELSE h

InitApp ==
    /\ pc = "app"
    /\ hand = <<>>
    /\ offset = 0
    /\ solution = NoSolution
    /\ indicator = Undefined
    /\ codeCards = <<>>
    /\ predicted = NoPrediction
    /\ matched = 0
    /\ ranks = <<>>
    /\ sorted = <<>>
    /\ AppIdle

harnessVars == <<pc, offset, indicator, codeCards, predicted, matched, ranks, sorted>>

\* useEffect(() => { ...; setDeck(newDeck) }, []): once, after the first render
InitializeDeck ==
    /\ deck = <<>>
    /\ deck' = newDeck
    /\ UNCHANGED <<hand, solution, phase, activeSuit, isHiddenRevealed, badCall>>
    /\ UNCHANGED harnessVars

\* onClick={() => setActiveSuit(suit)} of a suit tab of the selection view
SetActiveSuit ==
    /\ phase = "selection"
    /\ \E i \in 1..Len(SUITS) : activeSuit' = SUITS[i]
    /\ UNCHANGED <<hand, solution, deck, phase, isHiddenRevealed, badCall>>
    /\ UNCHANGED harnessVars

\* onClick={() => handleCardClick(card)} of a card of the grid or of the hand
\* preview
HandleCardClick ==
    /\ \E card \in {visibleDeck(deck, activeSuit)[i] :
                        i \in 1..Len(visibleDeck(deck, activeSuit))}
                   \cup {hand[i] : i \in 1..Len(hand)} :
          hand' = handleCardClick(phase, hand, card)
    /\ UNCHANGED <<solution, deck, phase, activeSuit, isHiddenRevealed, badCall>>
    /\ UNCHANGED harnessVars

\* performMagic, from the PERFORM MAGIC button of the selection view.  An
\* encoder that throws leaves the handler before setSolution.
PerformMagic ==
    /\ phase = "selection"
    /\ IF Len(hand) # 5
       THEN UNCHANGED <<solution, phase, badCall>>
       ELSE LET sol == getFitchCheneyArrangement(hand)
            IN  /\ badCall' = (badCall \/ Len(hand) # 5
                                \/ \E i, j \in 1..Len(hand) : i < j /\ hand[i].id = hand[j].id)
                /\ IF sol.status = "throw"
                   THEN UNCHANGED <<solution, phase>>
                   ELSE solution' = sol /\ phase' = "stage"
    /\ UNCHANGED <<hand, deck, activeSuit, isHiddenRevealed>>
    /\ UNCHANGED harnessVars

\* onClick={() => setIsHiddenRevealed(true)} of the prediction card and of
\* the REVEAL button, rendered under phase === 'stage' && solution
Reveal ==
    /\ phase = "stage"
    /\ solution # NoSolution
    /\ isHiddenRevealed' = TRUE
    /\ UNCHANGED <<hand, solution, deck, phase, activeSuit, badCall>>
    /\ UNCHANGED harnessVars

\* reset, from the header button rendered under phase !== 'selection'
Reset ==
    /\ phase # "selection"
    /\ hand' = <<>>
    /\ phase' = "selection"
    /\ solution' = NoSolution
    /\ isHiddenRevealed' = FALSE
    /\ UNCHANGED <<deck, activeSuit, badCall>>
    /\ UNCHANGED harnessVars

NextApp ==
    \/ InitializeDeck
    \/ SetActiveSuit
    \/ HandleCardClick
    \/ PerformMagic
    \/ Reveal
    \/ Reset

SpecApp == InitApp /\ [][NextApp]_vars

Swap(h, i, j) ==
    [k \in 1..Len(h) |-> IF k = i THEN h[j] ELSE IF k = j THEN h[i] ELSE h[k]]

\* how many cards of the hand are of the suit the encoder selected
SelectedCount ==
    Cardinality({i \in 1..Len(hand) : hand[i].suit = solution.indicator.suit})

\* C13 (order independence): when the selected suit holds exactly two cards
\* of the hand, the encoder returns the same indicator, hidden card and
\* codeCards for the hand with any two of its cards exchanged; every
\* ordering of every hand is a state and exchanges generate every
\* reordering, so all orderings of the same five cards share one result.
\* When the selected suit holds three or more cards, exchanging two cards
\* of the hand changes the result for some pair of positions.
C13_OrderIndependence ==
    pc = "encoded" =>
        /\ solution.status = "ok"
        /\ SelectedCount >= 2
        /\ SelectedCount = 2 =>
              \A i, j \in 1..5 : i < j =>
                  LET other == getFitchCheneyArrangement(Swap(hand, i, j))
                  IN  /\ other.indicator = solution.indicator
                      /\ other.hidden = solution.hidden
                      /\ other.codeCards = solution.codeCards
        /\ SelectedCount >= 3 =>
              \E i, j \in 1..5 :
                  /\ i < j
                  /\ getFitchCheneyArrangement(Swap(hand, i, j)).hidden
                        # solution.hidden

\* Two hearts and two diamonds with a spade: hearts are selected, the hidden
\* heart comes before the indicator in the hand, and the other three cards
\* are not in rank order.
C13_Witness ==
    /\ pc = "encoded"
    /\ solution.status = "ok"
    /\ SelectedCount = 2
    /\ solution.indicator.suit = "hearts"
    /\ solution.hidden = hand[2]
    /\ solution.indicator = hand[4]
    /\ hand[1].suit = "diamonds"
    /\ hand[3].suit = "diamonds"
    /\ hand[5].suit = "spades"
    /\ getCardRank(hand[1]) > getCardRank(hand[3])
    /\ getFitchCheneyArrangement(Swap(hand, 2, 4)) = solution

====
